---- MODULE Spec2Model ----
(***************************************************************************)
(* Model of the Google Trends aggregation engine of wordcloud_site:        *)
(* TrendsAnalyzer (src/trends_analyzer.py) and the route handlers of       *)
(* src/app.py that call it.                                                *)
(*                                                                         *)
(* Query terms (keywords and category names) are strings in the program;   *)
(* here a term is a natural number k, written "k<k>" wherever the program  *)
(* serialises it; terms are ordered as their numbers are.  Time is the     *)
(* value of time.time() in seconds; the clock advances between operations  *)
(* in steps of ClockStep, and the 0.5 s sleeps of one operation are        *)
(* shorter than a step, so one operation reads one value of the clock.     *)
(*                                                                         *)
(* cache is self._cache, now the clock, last the record of the operation   *)
(* that ran last.  handlers holds the request handlers that are inside     *)
(* fetch_trends_data at the same time, each at its own line, and pytrends  *)
(* the state of the one TrendReq client they share (self.pytrends).        *)
(***************************************************************************)
EXTENDS Integers, Sequences, FiniteSets, TLC

VARIABLES cache, now, last, handlers, pytrends

vars == <<cache, now, last, handlers, pytrends>>

---------------------------------------------------------------------------
(* Bounds of the model *)

\* the clock advances ClockStep seconds at a time, MaxClock times at most
ClockStep == 1800

MaxClock == 2

\* length of the longest keyword list a caller passes to the engine
MaxList == 6

\* the lists a fingerprint is computed for: up to MaxKeyLen terms of 1..MaxTerm
MaxKeyLen == 3

MaxTerm == 3

\* number of keywords of the first and of the second configured category
Cat1Size == 12

Cat2Size == 2

---------------------------------------------------------------------------
(* Program constants *)

\* self._cache_duration
CacheDuration == 3600

\* keywords = keywords[:5]
MaxBatch == 5

\* range(0, len(keywords), 5) and keywords[i:i+5]
BatchStep == 5

\* category=None
NoCategory == 0

\* days=7
DefaultDays == 7

\* geo='KR'
DefaultGeo == "KR"

\* timeframe='today 3-m'
DefaultTimeframe == "today 3-m"

---------------------------------------------------------------------------
(* Sequences *)

Min(a, b) == IF a <= b THEN a ELSE b

Range(s) == {s[i] : i \in 1..Len(s)}

\* s[:n]
Take(s, n) == SubSeq(s, 1, Min(n, Len(s)))

RECURSIVE Insert(_, _)
Insert(x, s) ==
    IF s = <<>> THEN <<x>>
    ELSE IF x <= Head(s) THEN <<x>> \o s
    ELSE <<Head(s)>> \o Insert(x, Tail(s))

\* sorted(keywords): the ascending rearrangement of the list
RECURSIVE sorted(_)
sorted(s) == IF s = <<>> THEN <<>> ELSE Insert(Head(s), sorted(Tail(s)))

RECURSIVE Sum(_)
Sum(s) == IF s = <<>> THEN 0 ELSE Head(s) + Sum(Tail(s))

RECURSIVE Gcd(_, _)
Gcd(a, b) == IF b = 0 THEN a ELSE Gcd(b, a % b)

\* a number that need not be whole: num / den in lowest terms
Rat(n, d) == LET g == Gcd(n, d) IN [num |-> n \div g, den |-> d \div g]

One == Rat(1, 1)

Zero == Rat(0, 1)

RatLess(a, b) == a.num * b.den < b.num * a.den

\* max(a, b) of Python: the first argument unless the second is greater
RatMax(a, b) == IF RatLess(a, b) THEN b ELSE a

---------------------------------------------------------------------------
(* Fingerprint Builder: json.dumps and md5 *)

\* the search term that is the word "hour": a term callers may ask for,
\* and no configured keyword
HourTerm == Cat1Size + Cat2Size + 2

Quote(s) == "\"" \o s \o "\""

\* the text of term k; the term HourTerm is the word "hour"
TermName(k) == IF k = HourTerm THEN "hour" ELSE "k" \o ToString(k)

RECURSIVE JoinComma(_)
JoinComma(parts) ==
    IF parts = <<>> THEN ""
    ELSE IF Len(parts) = 1 THEN parts[1]
    ELSE parts[1] \o ", " \o JoinComma(Tail(parts))

\* json.dumps of a string, of None and of a list of terms; a list is
\* written in the order given (sort_keys orders the keys of dicts only)
JsonStr(s) == Quote(s)

JsonNull == "null"

JsonArray(parts) == "[" \o JoinComma(parts) \o "]"

JsonTerms(kws) == JsonArray([i \in 1..Len(kws) |-> JsonStr(TermName(kws[i]))])

\* hashlib.md5(...).hexdigest(): collision resistant, so the digest is
\* represented by the text it digests
Md5(text) == text

\* _get_cache_key(*args): args is the tuple of already serialised arguments
get_cache_key(args) == Md5(JsonArray(args))

---------------------------------------------------------------------------
(* Cache Store *)

get_from_cache_stale(c, t, cache_key) ==
    IF cache_key \in DOMAIN c /\ t - c[cache_key].timestamp <= CacheDuration
    THEN [hit |-> TRUE, data |-> c[cache_key].data]
    ELSE [hit |-> FALSE, data |-> <<>>]

\* _get_from_cache: hit = FALSE stands for the None it returns
get_from_cache(c, t, cache_key) ==
    IF cache_key \in DOMAIN c /\ t - c[cache_key].timestamp < CacheDuration
    THEN [hit |-> TRUE, data |-> c[cache_key].data]
    ELSE [hit |-> FALSE, data |-> <<>>]

\* the put that leaves an entry that is already there as it is
save_to_cache_keep(c, t, cache_key, data) ==
    [k \in DOMAIN c \cup {cache_key} |->
        IF k \in DOMAIN c THEN c[k] ELSE [data |-> data, timestamp |-> t]]

\* _save_to_cache
save_to_cache(c, t, cache_key, data) ==
    [k \in DOMAIN c \cup {cache_key} |->
        IF k = cache_key THEN [data |-> data, timestamp |-> t] ELSE c[k]]

\* what a cache get is logged as: the entry's timestamp (-1: no entry)
GetLog(c, t, cache_key) ==
    [key |-> cache_key,
     hit |-> get_from_cache(c, t, cache_key).hit,
     stamp |-> IF cache_key \in DOMAIN c THEN c[cache_key].timestamp ELSE -1]

---------------------------------------------------------------------------
(* External Source Adapter: pytrends *)

\* the time index of a response: hour of day and day of week of each sample
SampleIndex ==
    << [hour |-> 0, dow |-> 0], [hour |-> 0, dow |-> 1], [hour |-> 12, dow |-> 1] >>

\* the samples of term k in a response with high, resp. low, interest
HighSamples(k) == <<10, 20, 30 + 3 * (k % 3)>>

LowSamples(k) == <<0, 1, 0>>

\* a term the source answers with in place of the one asked for: one that
\* is no configured keyword
StrayTerm == Cat1Size + Cat2Size + 1

\* pd.DataFrame()
EmptyDF == [index |-> <<>>, cols |-> <<>>, partial |-> FALSE, derived |-> FALSE]

\* what one external call does: it fails, or it returns a table
Outcomes == {"fail", "empty", "full", "low", "miss"}

\* build_payload + interest_over_time for kw_list, when it does not raise
Respond(out, kw_list) ==
    CASE out = "empty" -> EmptyDF
      [] out = "full" ->
            [index |-> SampleIndex,
             cols |-> [k \in Range(kw_list) |-> HighSamples(k)],
             partial |-> TRUE, derived |-> FALSE]
      [] out = "low" ->
            [index |-> SampleIndex,
             cols |-> [k \in Range(kw_list) |-> LowSamples(k)],
             partial |-> FALSE, derived |-> FALSE]
      [] out = "miss" ->
            [index |-> SampleIndex,
             cols |-> [k \in (Range(kw_list) \ {kw_list[1]}) \cup {StrayTerm} |->
                          HighSamples(k)],
             partial |-> TRUE, derived |-> FALSE]

\* df.empty: no rows or no columns
IsEmpty(df) ==
    Len(df.index) = 0 \/ (DOMAIN df.cols = {} /\ ~df.partial /\ ~df.derived)

\* df[column].mean()
Mean(df, column) == Rat(Sum(df.cols[column]), Len(df.cols[column]))

---------------------------------------------------------------------------
(* Batch Fetcher *)

\* the steps of a fetch that misses the cache, in program order:
\* time.sleep(0.5), then build_payload and interest_over_time
SleepThenCall == <<"sleep", "call">>

\* keywords[:5] taken from the sorted list instead of the list passed
Truncate_sorted(keywords) == Take(sorted(keywords), MaxBatch)

\* keywords = keywords[:5]
Truncate(keywords) == Take(keywords, MaxBatch)

\* the fetch fingerprint computed from the list as passed
FetchKey_unsorted(keywords, timeframe, geo) ==
    get_cache_key(<<JsonStr("fetch"), JsonTerms(keywords),
                    JsonStr(timeframe), JsonStr(geo)>>)

\* cache_key = self._get_cache_key('fetch', sorted(keywords), timeframe, geo)
FetchKey(keywords, timeframe, geo) ==
    get_cache_key(<<JsonStr("fetch"), JsonTerms(sorted(keywords)),
                    JsonStr(timeframe), JsonStr(geo)>>)

\* the drop of the 'isPartial' column
StripPartial(df) ==
    IF ~IsEmpty(df) /\ df.partial THEN [df EXCEPT !.partial = FALSE] ELSE df

\* fetch_trends_data that stores the empty table when the call fails
fetch_trends_data_savefail(c, t, keywords, timeframe, geo, out) ==
    LET cache_key == FetchKey(keywords, timeframe, geo)
        cached == get_from_cache(c, t, cache_key)
        call == [kw_list |-> Truncate(keywords), timeframe |-> timeframe,
                 geo |-> geo, outcome |-> out]
        df == IF out = "fail" THEN EmptyDF
              ELSE StripPartial(Respond(out, Truncate(keywords)))
    IN  IF cached.hit
        THEN [ret |-> cached.data, cache |-> c, calls |-> <<>>, delays |-> 0,
              gets |-> <<GetLog(c, t, cache_key)>>, trace |-> <<>>]
        ELSE [ret |-> df, cache |-> save_to_cache(c, t, cache_key, df),
              calls |-> <<call>>, delays |-> 1,
              gets |-> <<GetLog(c, t, cache_key)>>, trace |-> SleepThenCall]

\* fetch_trends_data that goes to the source without looking in the cache
fetch_trends_data_nocache(c, t, keywords, timeframe, geo, out) ==
    LET cache_key == FetchKey(keywords, timeframe, geo)
        call == [kw_list |-> Truncate(keywords), timeframe |-> timeframe,
                 geo |-> geo, outcome |-> out]
        df == StripPartial(Respond(out, Truncate(keywords)))
    IN  IF out = "fail"
        THEN [ret |-> EmptyDF, cache |-> c, calls |-> <<call>>, delays |-> 1,
              gets |-> <<>>, trace |-> SleepThenCall]
        ELSE [ret |-> df, cache |-> save_to_cache(c, t, cache_key, df),
              calls |-> <<call>>, delays |-> 1, gets |-> <<>>,
              trace |-> SleepThenCall]

\* fetch_trends_data that does not sleep before it calls the source
fetch_trends_data_nosleep(c, t, keywords, timeframe, geo, out) ==
    LET cache_key == FetchKey(keywords, timeframe, geo)
        cached == get_from_cache(c, t, cache_key)
        call == [kw_list |-> Truncate(keywords), timeframe |-> timeframe,
                 geo |-> geo, outcome |-> out]
        df == StripPartial(Respond(out, Truncate(keywords)))
    IN  IF cached.hit
        THEN [ret |-> cached.data, cache |-> c, calls |-> <<>>, delays |-> 0,
              gets |-> <<GetLog(c, t, cache_key)>>, trace |-> <<>>]
        ELSE IF out = "fail"
        THEN [ret |-> EmptyDF, cache |-> c, calls |-> <<call>>, delays |-> 0,
              gets |-> <<GetLog(c, t, cache_key)>>, trace |-> <<"call">>]
        ELSE [ret |-> df, cache |-> save_to_cache(c, t, cache_key, df),
              calls |-> <<call>>, delays |-> 0,
              gets |-> <<GetLog(c, t, cache_key)>>, trace |-> <<"call">>]

\* fetch_trends_data(keywords, timeframe, geo) run on cache c at time t, the
\* external call (if one is made) ending as out.  The result: the table
\* returned, the cache afterwards, the external calls dispatched, the
\* number of sleeps, the cache gets, and the sleeps and calls in the order
\* they happened.
fetch_trends_data(c, t, keywords, timeframe, geo, out) ==
    LET cache_key == FetchKey(keywords, timeframe, geo)
        cached == get_from_cache(c, t, cache_key)
        call == [kw_list |-> Truncate(keywords), timeframe |-> timeframe,
                 geo |-> geo, outcome |-> out]
        df == StripPartial(Respond(out, Truncate(keywords)))
    IN  IF cached.hit
        THEN [ret |-> cached.data, cache |-> c, calls |-> <<>>, delays |-> 0,
              gets |-> <<GetLog(c, t, cache_key)>>, trace |-> <<>>]
        ELSE IF out = "fail"
        THEN [ret |-> EmptyDF, cache |-> c, calls |-> <<call>>, delays |-> 1,
              gets |-> <<GetLog(c, t, cache_key)>>, trace |-> SleepThenCall]
        ELSE [ret |-> df, cache |-> save_to_cache(c, t, cache_key, df),
              calls |-> <<call>>, delays |-> 1,
              gets |-> <<GetLog(c, t, cache_key)>>, trace |-> SleepThenCall]

---------------------------------------------------------------------------
(* Configuration: keywords_config.py *)

\* the runs of terms i, i+1, .., j and j, j-1, .., i
Asc(i, j) == [n \in 1..(j - i + 1) |-> i + n - 1]

Desc(i, j) == [n \in 1..(j - i + 1) |-> j - n + 1]

\* PRODUCT_CATEGORIES: the ordered list of category names
PRODUCT_CATEGORIES == <<101, 102>>

\* PRODUCT_KEYWORDS: the ordered, non-empty keyword list of each category
PRODUCT_KEYWORDS ==
    [category \in {101, 102} |->
        IF category = 101 THEN Asc(1, Cat1Size)
        ELSE Asc(Cat1Size + 1, Cat1Size + Cat2Size)]

---------------------------------------------------------------------------
(* Aggregator *)

\* a dict: the sequence of its items in insertion order
DictKeys(d) == {d[i][1] : i \in 1..Len(d)}

DictGet(d, k) == d[CHOOSE i \in 1..Len(d) : d[i][1] = k][2]

\* d[k] = v
DictSet(d, k, v) ==
    IF k \in DictKeys(d)
    THEN [i \in 1..Len(d) |-> IF d[i][1] = k THEN <<k, v>> ELSE d[i]]
    ELSE Append(d, <<k, v>>)

\* what an operation has done so far, and after one more fetch f
Start(c) ==
    [cache |-> c, calls |-> <<>>, delays |-> 0, gets |-> <<>>, ret |-> <<>>,
     trace |-> <<>>]

After(acc, f, ret) ==
    [cache |-> f.cache, calls |-> acc.calls \o f.calls,
     delays |-> acc.delays + f.delays, gets |-> acc.gets \o f.gets, ret |-> ret,
     trace |-> acc.trace \o f.trace]

\* the loop that stops at the first category without data
RECURSIVE CategoryLoop_stop(_, _, _, _, _)
CategoryLoop_stop(i, acc, t, timeframe, outs) ==
    IF i > Len(PRODUCT_CATEGORIES) THEN acc
    ELSE LET category == PRODUCT_CATEGORIES[i]
             f == fetch_trends_data(acc.cache, t, <<category>>, timeframe,
                                    DefaultGeo, outs[i])
             df == f.ret
         IN  IF ~IsEmpty(df) /\ category \in DOMAIN df.cols
             THEN CategoryLoop_stop(i + 1,
                     After(acc, f, DictSet(acc.ret, category, Mean(df, category))),
                     t, timeframe, outs)
             ELSE After(acc, f, DictSet(acc.ret, category, Zero))

\* the loop of analyze_by_category from the i-th category on
RECURSIVE CategoryLoop(_, _, _, _, _)
CategoryLoop(i, acc, t, timeframe, outs) ==
    IF i > Len(PRODUCT_CATEGORIES) THEN acc
    ELSE LET category == PRODUCT_CATEGORIES[i]
             f == fetch_trends_data(acc.cache, t, <<category>>, timeframe,
                                    DefaultGeo, outs[i])
             df == f.ret
             score == IF ~IsEmpty(df) /\ category \in DOMAIN df.cols
                      THEN Mean(df, category) ELSE Zero
         IN  CategoryLoop(i + 1, After(acc, f, DictSet(acc.ret, category, score)),
                          t, timeframe, outs)

\* analyze_by_category(timeframe); outs[i] is how the external call for the
\* i-th category ends, if one is made
analyze_by_category(c, t, timeframe, outs) ==
    CategoryLoop(1, Start(c), t, timeframe, outs)

\* for keyword in keywords: weights[keyword] = w
RECURSIVE SetAll(_, _, _)
SetAll(d, keywords, w) ==
    IF keywords = <<>> THEN d
    ELSE SetAll(DictSet(d, Head(keywords), w), Tail(keywords), w)

\* the weight of a category with its floor at 0 instead of 1
CategoryWeight_floor0(df, category) ==
    IF ~IsEmpty(df) /\ category \in DOMAIN df.cols
    THEN RatMax(Mean(df, category), Zero) ELSE Zero

\* max(df[category].mean(), 1), and the default 1 when there is no data
CategoryWeight(df, category) ==
    IF ~IsEmpty(df) /\ category \in DOMAIN df.cols
    THEN RatMax(Mean(df, category), One) ELSE One

\* the loop of get_keyword_weights from the i-th category on
RECURSIVE WeightLoop(_, _, _, _, _)
WeightLoop(i, acc, t, timeframe, outs) ==
    IF i > Len(PRODUCT_CATEGORIES) THEN acc
    ELSE LET category == PRODUCT_CATEGORIES[i]
             f == fetch_trends_data(acc.cache, t, <<category>>, timeframe,
                                    DefaultGeo, outs[i])
             category_weight == CategoryWeight(f.ret, category)
         IN  WeightLoop(i + 1,
                        After(acc, f, SetAll(acc.ret, PRODUCT_KEYWORDS[category],
                                             category_weight)),
                        t, timeframe, outs)

\* cache_key = self._get_cache_key('weights', timeframe)
WeightsKey(timeframe) == get_cache_key(<<JsonStr("weights"), JsonStr(timeframe)>>)

\* get_keyword_weights that does not store what it computed
get_keyword_weights_nosave(c, t, timeframe, outs) ==
    LET cache_key == WeightsKey(timeframe)
        cached == get_from_cache(c, t, cache_key)
        g == <<GetLog(c, t, cache_key)>>
        r == WeightLoop(1, Start(c), t, timeframe, outs)
    IN  IF cached.hit
        THEN [Start(c) EXCEPT !.ret = cached.data, !.gets = g]
        ELSE [r EXCEPT !.gets = g \o r.gets]

\* get_keyword_weights(timeframe)
get_keyword_weights(c, t, timeframe, outs) ==
    LET cache_key == WeightsKey(timeframe)
        cached == get_from_cache(c, t, cache_key)
        g == <<GetLog(c, t, cache_key)>>
        r == WeightLoop(1, Start(c), t, timeframe, outs)
    IN  IF cached.hit
        THEN [Start(c) EXCEPT !.ret = cached.data, !.gets = g]
        ELSE [r EXCEPT !.cache = save_to_cache(r.cache, t, cache_key, r.ret),
                       !.gets = g \o r.gets]

\* the batching that drops the last, shorter batch
Batches_full(keywords, i) ==
    [j \in 1..((Len(keywords) - i) \div BatchStep) |->
        SubSeq(keywords, i + (j - 1) * BatchStep + 1, i + j * BatchStep)]

\* for i in range(0, len(keywords), 5): batch = keywords[i:i+5]
RECURSIVE Batches(_, _)
Batches(keywords, i) ==
    IF i >= Len(keywords) THEN <<>>
    ELSE <<SubSeq(keywords, i + 1, Min(i + BatchStep, Len(keywords)))>>
         \o Batches(keywords, i + BatchStep)

\* the batches of the categories cats, in the order the loops reach them
RECURSIVE AllBatches(_)
AllBatches(cats) ==
    IF cats = <<>> THEN <<>>
    ELSE Batches(PRODUCT_KEYWORDS[Head(cats)], 0) \o AllBatches(Tail(cats))

\* the weights one batch adds, from the table df fetched for it
RECURSIVE BatchWeights(_, _, _)
BatchWeights(d, batch, df) ==
    IF batch = <<>> THEN d
    ELSE LET keyword == Head(batch)
             w == IF ~IsEmpty(df) /\ keyword \in DOMAIN df.cols
                  THEN RatMax(Mean(df, keyword), Zero) ELSE Zero
         IN  BatchWeights(DictSet(d, keyword, w), Tail(batch), df)

\* the loops of get_detailed_keyword_weights from the i-th batch on
RECURSIVE DetailLoop(_, _, _, _, _, _)
DetailLoop(i, batches, acc, t, timeframe, outs) ==
    IF i > Len(batches) THEN acc
    ELSE LET f == fetch_trends_data(acc.cache, t, batches[i], timeframe,
                                    DefaultGeo, outs[i])
         IN  DetailLoop(i + 1, batches,
                        After(acc, f, BatchWeights(acc.ret, batches[i], f.ret)),
                        t, timeframe, outs)

\* json.dumps of the category argument
JsonCategory(category) ==
    IF category = NoCategory THEN JsonNull ELSE JsonStr(TermName(category))

\* cache_key = self._get_cache_key('detailed_weights', timeframe, category)
DetailedKey(timeframe, category) ==
    get_cache_key(<<JsonStr("detailed_weights"), JsonStr(timeframe),
                    JsonCategory(category)>>)

\* [category] if category and category in PRODUCT_KEYWORDS else PRODUCT_CATEGORIES
categories_to_analyze(category) ==
    IF category # NoCategory /\ category \in DOMAIN PRODUCT_KEYWORDS
    THEN <<category>> ELSE PRODUCT_CATEGORIES

\* get_detailed_keyword_weights(timeframe, category)
get_detailed_keyword_weights(c, t, timeframe, category, outs) ==
    LET cache_key == DetailedKey(timeframe, category)
        cached == get_from_cache(c, t, cache_key)
        g == <<GetLog(c, t, cache_key)>>
        r == DetailLoop(1, AllBatches(categories_to_analyze(category)),
                        Start(c), t, timeframe, outs)
    IN  IF cached.hit
        THEN [Start(c) EXCEPT !.ret = cached.data, !.gets = g]
        ELSE [r EXCEPT !.cache = save_to_cache(r.cache, t, cache_key, r.ret),
                       !.gets = g \o r.gets]

\* df['hour'] = df.index.hour: the assignment replaces a column of that
\* name, so the samples of the search term "hour" are replaced by the hours
\* of the index (likewise for day_of_week and date, which have no term here)
AttachHour(df) ==
    [k \in DOMAIN df.cols |->
        IF k = HourTerm THEN [i \in 1..Len(df.index) |-> df.index[i].hour]
        ELSE df.cols[k]]

\* analyze_by_time(keywords, timeframe): the table fetched is the object the
\* cache holds, and the hour, day_of_week and date columns are added to it
analyze_by_time(c, t, keywords, timeframe, out) ==
    LET f == fetch_trends_data(c, t, keywords, timeframe, DefaultGeo, out)
        cache_key == FetchKey(keywords, timeframe, DefaultGeo)
        df == [f.ret EXCEPT !.derived = TRUE, !.cols = AttachHour(f.ret)]
    IN  IF IsEmpty(f.ret) THEN [f EXCEPT !.ret = EmptyDF]
        ELSE [f EXCEPT !.ret = df,
                       !.cache = [f.cache EXCEPT ![cache_key].data = df]]

\* df.groupby(field)[keyword].mean().to_dict()
GroupMean(df, keyword, field) ==
    LET rows == 1..Len(df.index)
        Rows(b) == {i \in rows : df.index[i][field] = b}
        RECURSIVE SumOver(_)
        SumOver(S) == IF S = {} THEN 0
                      ELSE LET i == CHOOSE j \in S : TRUE
                           IN  df.cols[keyword][i] + SumOver(S \ {i})
    IN  [b \in {df.index[i][field] : i \in rows} |->
            Rat(SumOver(Rows(b)), Cardinality(Rows(b)))]

\* for keyword in keywords: if keyword in df.columns: avg[keyword] = ...
RECURSIVE GroupAll(_, _, _, _)
GroupAll(d, keywords, df, field) ==
    IF keywords = <<>> THEN d
    ELSE LET keyword == Head(keywords)
         IN  GroupAll(IF keyword \in DOMAIN df.cols
                      THEN DictSet(d, keyword, GroupMean(df, keyword, field))
                      ELSE d,
                      Tail(keywords), df, field)

\* f'now {days}-d'
DaysTimeframe(days) == "now " \o ToString(days) \o "-d"

\* get_hourly_analysis(keywords, days)
get_hourly_analysis(c, t, keywords, days, out) ==
    LET a == analyze_by_time(c, t, keywords, DaysTimeframe(days), out)
    IN  IF IsEmpty(a.ret) THEN [a EXCEPT !.ret = <<>>]
        ELSE [a EXCEPT !.ret = GroupAll(<<>>, keywords, a.ret, "hour")]

\* get_weekly_analysis(keywords)
get_weekly_analysis(c, t, keywords, out) ==
    LET a == analyze_by_time(c, t, keywords, DefaultTimeframe, out)
    IN  IF IsEmpty(a.ret) THEN [a EXCEPT !.ret = <<>>]
        ELSE [a EXCEPT !.ret = GroupAll(<<>>, keywords, a.ret, "dow")]

\* the insertion that puts an item before the items of the same score
RECURSIVE InsertDesc_ties(_, _)
InsertDesc_ties(x, s) ==
    IF s = <<>> THEN <<x>>
    ELSE IF ~RatLess(x[2], Head(s)[2]) THEN <<x>> \o s
    ELSE <<Head(s)>> \o InsertDesc_ties(x, Tail(s))

\* sorted(items, key=lambda x: x[1], reverse=True): stable, so an item goes
\* after the items of the same score that came before it
RECURSIVE InsertDesc(_, _)
InsertDesc(x, s) ==
    IF s = <<>> THEN <<x>>
    ELSE IF RatLess(Head(s)[2], x[2]) THEN <<x>> \o s
    ELSE <<Head(s)>> \o InsertDesc(x, Tail(s))

RECURSIVE SortDesc(_, _)
SortDesc(items, done) ==
    IF items = <<>> THEN done
    ELSE SortDesc(Tail(items), InsertDesc(Head(items), done))

\* get_top_keywords(n, timeframe), n >= 0
get_top_keywords(c, t, n, timeframe, outs) ==
    LET w == get_keyword_weights(c, t, timeframe, outs)
    IN  [w EXCEPT !.ret = Take(SortDesc(w.ret, <<>>), n)]

---------------------------------------------------------------------------
(* State *)

\* the timeframes callers pass: the default and that of the hourly analysis
Timeframes == {DefaultTimeframe, DaysTimeframe(DefaultDays)}

\* the keyword lists callers pass, in both orders, up to MaxList long
KeywordLists == {Desc(1, 2), Asc(1, MaxList), Desc(1, MaxList)}

NoOp ==
    [op |-> "none", args |-> <<>>, ret |-> <<>>, calls |-> <<>>, delays |-> 0,
     gets |-> <<>>, trace |-> <<>>, at |-> 0, again |-> FALSE]

\* the number of request handlers that run at the same time
NumHandlers == 2

Handlers == 1..NumHandlers

\* a handler that has not called the engine yet
Idle ==
    [pc |-> "idle", keywords |-> <<>>, timeframe |-> "", cache_key |-> "",
     response |-> EmptyDF, ret |-> EmptyDF, called |-> FALSE, saved |-> FALSE]

\* TrendReq(hl='ko', tz=540): no query has been built yet
NoQuery == [built |-> FALSE, kw_list |-> <<>>, timeframe |-> "", geo |-> ""]

\* TrendsAnalyzer.__init__: the cache is empty
Init ==
    /\ cache = <<>>
    /\ now = 0
    /\ last = NoOp
    /\ handlers = [h \in Handlers |-> Idle]
    /\ pytrends = NoQuery

\* an operation has run: r is what it returned and did; again tells that
\* the operation before it was the same one, with the same arguments, less
\* than CacheDuration seconds ago
Record(op, args, r) ==
    /\ cache' = r.cache
    /\ last' = [op |-> op, args |-> args, ret |-> r.ret, calls |-> r.calls,
                delays |-> r.delays, gets |-> r.gets, trace |-> r.trace,
                at |-> now,
                again |-> (last.op = op /\ last.args = args
                           /\ now - last.at < CacheDuration)]
    /\ UNCHANGED <<now, handlers, pytrends>>

\* time.time() advances
Tick ==
    /\ now + ClockStep <= MaxClock * ClockStep
    /\ now' = now + ClockStep
    /\ UNCHANGED <<cache, last, handlers, pytrends>>

\* the (keywords, timeframe) pairs fetch_trends_data is called with
FetchRequests ==
    (KeywordLists \X {DefaultTimeframe}) \cup ({Desc(1, 2)} \X {DaysTimeframe(DefaultDays)})

\* a caller invokes fetch_trends_data
Fetch ==
    \E request \in FetchRequests, out \in Outcomes \ {"low"} :
        Record("fetch", request,
               fetch_trends_data(cache, now, request[1], request[2],
                                 DefaultGeo, out))

NextFetch == Tick \/ Fetch

\* the Batch Fetcher and the Cache Store alone
SpecFetch == Init /\ [][NextFetch]_vars

\* how the external calls of one operation end: one outcome per fetch
Scripts(n, outcomes) == [1..n -> outcomes]

\* a run keeps to one family of operations (the families share no fingerprint)
Family(ops) == last.op \in {"none"} \cup ops

ProxyOps == {"categories", "weights", "top"}

AnalyzeByCategory(outcomes) ==
    \E outs \in Scripts(Len(PRODUCT_CATEGORIES), outcomes) :
        Record("categories", <<DefaultTimeframe>>,
               analyze_by_category(cache, now, DefaultTimeframe, outs))

GetKeywordWeights(outcomes) ==
    \E outs \in Scripts(Len(PRODUCT_CATEGORIES), outcomes) :
        Record("weights", <<DefaultTimeframe>>,
               get_keyword_weights(cache, now, DefaultTimeframe, outs))

GetTopKeywords(sizes, outcomes) ==
    \E outs \in Scripts(Len(PRODUCT_CATEGORIES), outcomes), n \in sizes :
        Record("top", <<n, DefaultTimeframe>>,
               get_top_keywords(cache, now, n, DefaultTimeframe, outs))

NextProxy ==
    \/ Tick
    \/ AnalyzeByCategory({"fail", "full"})
    \/ GetKeywordWeights(Outcomes)
    \/ GetTopKeywords({3}, {"fail", "full"})

\* the proxy-mode operations of the Aggregator
SpecProxy == Init /\ [][NextProxy]_vars

GetDetailedKeywordWeights(categories, outcomes) ==
    \E category \in categories :
        \E outs \in Scripts(Len(AllBatches(categories_to_analyze(category))),
                            outcomes) :
            Record("detailed", <<DefaultTimeframe, category>>,
                   get_detailed_keyword_weights(cache, now, DefaultTimeframe,
                                                category, outs))

NextExact ==
    \/ Tick
    \/ cache = <<>> /\ GetDetailedKeywordWeights({NoCategory, 101, 102}, Outcomes \ {"low"})
    \/ cache # <<>> /\ GetDetailedKeywordWeights({102}, {"fail", "full"})

\* the exact-mode operation of the Aggregator: any request on the empty
\* cache, then requests for the second category
SpecExact == Init /\ [][NextExact]_vars

GetHourlyAnalysis(lists, outcomes) ==
    \E keywords \in lists, days \in {DefaultDays}, out \in outcomes :
        Record("hourly", <<keywords, days>>,
               get_hourly_analysis(cache, now, keywords, days, out))

GetWeeklyAnalysis(lists, outcomes) ==
    \E keywords \in lists, out \in outcomes :
        Record("weekly", <<keywords>>,
               get_weekly_analysis(cache, now, keywords, out))

NextOps ==
    \/ Tick
    \/ Family(ProxyOps) /\ AnalyzeByCategory({"fail", "empty", "full"})
    \/ Family(ProxyOps) /\ GetKeywordWeights({"fail", "full"})
    \/ Family(ProxyOps) /\ GetTopKeywords({3}, {"fail", "full"})
    \/ Family({"detailed"})
         /\ GetDetailedKeywordWeights({102}, {"fail", "empty", "full"})
    \/ Family({"hourly", "weekly"})
         /\ GetHourlyAnalysis({Desc(1, 2)}, {"fail", "empty", "full"})
    \/ Family({"hourly", "weekly"})
         /\ GetWeeklyAnalysis({Desc(1, 2)}, {"fail", "empty", "full"})

\* the five cached operations, one family of them in a run
SpecOps == Init /\ [][NextOps]_vars

NextCategory ==
    \/ Tick
    \/ AnalyzeByCategory(Outcomes)

\* analyze_by_category alone, under every outcome of its external calls
SpecCategory == Init /\ [][NextCategory]_vars

\* the keyword lists of the time analyses: one keyword, several, more than
\* a query takes, and a list with the term "hour"
TimeLists == {<<3>>, Desc(1, 3), Asc(1, MaxList), <<HourTerm, 3>>}

NextTime ==
    \/ Tick
    \/ \E keywords \in TimeLists :
          /\ IF last.op = "none" THEN TRUE ELSE last.args[1] = keywords
          /\ GetHourlyAnalysis({keywords}, Outcomes)

\* get_hourly_analysis alone, one keyword list in a run
SpecTime == Init /\ [][NextTime]_vars

\* the keyword lists the concurrent handlers ask for: two orders of one
\* keyword set, and another keyword
RaceLists == {Asc(1, 2), Desc(1, 2), <<3>>}

\* the entry a fetch of <<3>> stored before the handlers start
EarlierResponse == StripPartial(Respond("full", <<3>>))

InitRace ==
    /\ cache = save_to_cache(<<>>, 0, FetchKey(<<3>>, DefaultTimeframe, DefaultGeo),
                             EarlierResponse)
    /\ now = 0
    /\ last = NoOp
    /\ handlers = [h \in Handlers |-> Idle]
    /\ pytrends = NoQuery

\* handler h takes a request and enters fetch_trends_data
Enter(h) ==
    /\ handlers[h].pc = "idle"
    /\ \E keywords \in RaceLists :
          handlers' = [handlers EXCEPT ![h] =
              [Idle EXCEPT !.pc = "get", !.keywords = keywords,
                           !.timeframe = DefaultTimeframe,
                           !.cache_key = FetchKey(keywords, DefaultTimeframe,
                                                  DefaultGeo)]]
    /\ UNCHANGED <<cache, now, last, pytrends>>

\* lines 62-69: the cache get; on a hit the handler returns the entry, on a
\* miss it sleeps and goes on
CacheGet(h) ==
    /\ handlers[h].pc = "get"
    /\ LET cached == get_from_cache(cache, now, handlers[h].cache_key)
       IN  handlers' = [handlers EXCEPT ![h] =
               IF cached.hit
               THEN [@ EXCEPT !.pc = "done", !.ret = cached.data]
               ELSE [@ EXCEPT !.pc = "build"]]
    /\ UNCHANGED <<cache, now, last, pytrends>>

\* lines 72-79: self.pytrends.build_payload(keywords[:5], ...) leaves the
\* query in the shared client, or raises
BuildPayload(h) ==
    /\ handlers[h].pc = "build"
    /\ \/ /\ pytrends' = [built |-> TRUE,
                          kw_list |-> Truncate(handlers[h].keywords),
                          timeframe |-> handlers[h].timeframe,
                          geo |-> DefaultGeo]
          /\ handlers' = [handlers EXCEPT ![h].pc = "read"]
       \/ /\ handlers' = [handlers EXCEPT ![h].pc = "done", ![h].ret = EmptyDF,
                                          ![h].called = TRUE]
          /\ UNCHANGED pytrends
    /\ UNCHANGED <<cache, now, last>>

\* lines 82-87: self.pytrends.interest_over_time() answers the query the
\* shared client holds, or raises; isPartial is dropped
InterestOverTime(h) ==
    /\ handlers[h].pc = "read"
    /\ \E out \in {"fail", "empty", "full"} :
          handlers' = [handlers EXCEPT ![h] =
              IF out = "fail"
              THEN [@ EXCEPT !.pc = "done", !.ret = EmptyDF, !.called = TRUE]
              ELSE [@ EXCEPT !.pc = "save", !.called = TRUE,
                             !.response = StripPartial(Respond(out, pytrends.kw_list))]]
    /\ UNCHANGED <<cache, now, last, pytrends>>

\* lines 90-92: the cache put, and the return; last is the put made last
SaveToCache(h) ==
    /\ handlers[h].pc = "save"
    /\ cache' = save_to_cache(cache, now, handlers[h].cache_key, handlers[h].response)
    /\ handlers' = [handlers EXCEPT ![h].pc = "done", ![h].saved = TRUE,
                                    ![h].ret = handlers[h].response]
    /\ last' = [NoOp EXCEPT !.op = "put",
                            !.args = <<h, handlers[h].cache_key>>,
                            !.ret = handlers[h].response, !.at = now]
    /\ UNCHANGED <<now, pytrends>>

\* one step of the handler h
Step(h) ==
    \/ Enter(h)
    \/ CacheGet(h)
    \/ BuildPayload(h)
    \/ InterestOverTime(h)
    \/ SaveToCache(h)

NextRace ==
    \/ Tick
    \/ \E h \in Handlers : Step(h)

\* request handlers inside fetch_trends_data at the same time, on the one
\* analyzer
SpecRace == InitRace /\ [][NextRace]_vars

\* a category name that is not configured
UnknownCategory == 103

\* what the source does with a query of no keywords: it fails, or it
\* answers with a table of no rows or of no columns
EmptyQueryOutcomes == {"fail", "empty", "full"}

NextMalformed ==
    \/ Tick
    \/ Family({"detailed"})
         /\ GetDetailedKeywordWeights({UnknownCategory}, {"fail", "full"})
    \/ Family({"hourly", "weekly"}) /\ GetHourlyAnalysis({<<>>}, EmptyQueryOutcomes)
    \/ Family({"hourly", "weekly"}) /\ GetWeeklyAnalysis({<<>>}, EmptyQueryOutcomes)

\* the operations called with an unconfigured category and with an empty
\* keyword list
SpecMalformed == Init /\ [][NextMalformed]_vars

\* the values of n callers pass: none, a few, more than one category has,
\* more than there are keywords
TopSizes == {0, 3, Cat1Size + 1, Cat1Size + Cat2Size + 1}

NextTop ==
    \/ Tick
    \/ GetTopKeywords(TopSizes, {"fail", "full", "low"})

\* get_top_keywords alone
SpecTop == Init /\ [][NextTop]_vars

NextBatch ==
    \/ Tick
    \/ cache = <<>> /\ GetDetailedKeywordWeights({101}, {"fail", "full"})
    \/ cache # <<>> /\ GetDetailedKeywordWeights({NoCategory}, {"fail", "full"})

\* the multi-batch operation: a request for the first category on the
\* empty cache, then requests for all categories
SpecBatch == Init /\ [][NextBatch]_vars

\* P is a rearrangement of L
IsPermutation(L, P) ==
    /\ Len(L) = Len(P)
    /\ \A x \in Range(L) \cup Range(P) :
          Cardinality({i \in 1..Len(L) : L[i] = x})
             = Cardinality({i \in 1..Len(P) : P[i] = x})

KeyLists == UNION {[1..n -> 1..MaxTerm] : n \in 0..MaxKeyLen}

\* the arguments of a fingerprint: an operation name, a list, a
\* rearrangement of the list and a timeframe
InitKey ==
    /\ cache = <<>>
    /\ now = 0
    /\ handlers = [h \in Handlers |-> Idle]
    /\ pytrends = NoQuery
    /\ \E name \in {"weights", "fetch"}, L \in KeyLists, P \in KeyLists,
          timeframe \in Timeframes :
          /\ IsPermutation(L, P)
          /\ last = [NoOp EXCEPT !.op = "arguments",
                                 !.args = <<name, L, P, timeframe>>]

\* _get_cache_key(name, L, timeframe) and _get_cache_key(name, P, timeframe),
\* and the fingerprints fetch_trends_data computes for L and for P
GetCacheKey ==
    /\ last.op = "arguments"
    /\ LET name == last.args[1]
           L == last.args[2]
           P == last.args[3]
           timeframe == last.args[4]
       IN  last' = [last EXCEPT
                !.op = "cache_key",
                !.ret = << get_cache_key(<<JsonStr(name), JsonTerms(L),
                                           JsonStr(timeframe)>>),
                           get_cache_key(<<JsonStr(name), JsonTerms(P),
                                           JsonStr(timeframe)>>),
                           FetchKey(L, timeframe, DefaultGeo),
                           FetchKey(P, timeframe, DefaultGeo) >>]
    /\ UNCHANGED <<cache, now, handlers, pytrends>>

NextKey == GetCacheKey

\* the Fingerprint Builder alone
SpecKey == InitKey /\ [][NextKey]_vars

---------------------------------------------------------------------------
(* Properties of the Cache Store and of the Batch Fetcher *)

\* the step is an operation (the clock stands still while one runs)
OpStep(op) == now' = now /\ last'.op = op

\* the external call of the operation l failed
CallFailed(l) == \E i \in 1..Len(l.calls) : l.calls[i].outcome = "fail"

\* the fingerprint fetch uses for the arguments args of a fetch
KeyOf(args) == FetchKey(args[1], args[2], DefaultGeo)

\* C1: a cache get returns the stored payload exactly when an entry exists
\* and is less than 3600 seconds old; with no entry, or with an entry 3600
\* seconds old or older, it behaves as absent.
C1_GetOnlyFresh ==
    /\ \A i \in 1..Len(last.gets) :
          LET g == last.gets[i]
          IN  g.hit <=> (g.stamp >= 0 /\ last.at - g.stamp < 3600)
    /\ (last.op = "fetch" /\ last.gets[1].hit) => last.ret = cache[KeyOf(last.args)].data

\* a get found an entry exactly 3600 seconds old and behaved as absent
C1_Witness ==
    \E i \in 1..Len(last.gets) :
        /\ last.gets[i].stamp >= 0
        /\ last.at - last.gets[i].stamp = 3600
        /\ ~last.gets[i].hit

\* C4 as stated: the fingerprint of an operation name, a keyword list and
\* a timeframe equals the fingerprint of the same name, any rearrangement
\* of the list and the same timeframe.
C4_Original ==
    last.op = "cache_key" => last.ret[1] = last.ret[2]

\* C4 amended: _get_cache_key serialises a list in the order given, so its
\* fingerprints of a list and of a rearrangement are equal only when the
\* two are the same list; the one caller that passes a list,
\* fetch_trends_data, sorts it first, so the fetch fingerprint of a
\* keyword list equals that of every rearrangement of it (same timeframe
\* and geo), and fetch fingerprints of different timeframes differ.
C4_FetchKeyOrderInsensitive ==
    last.op = "cache_key" =>
        /\ last.ret[3] = last.ret[4]
        /\ last.ret[1] = last.ret[2] <=> last.args[2] = last.args[3]
        /\ \A timeframe \in Timeframes \ {last.args[4]} :
              FetchKey(last.args[2], timeframe, DefaultGeo) # last.ret[3]

\* the fetch fingerprints of a list and of a different rearrangement of it
\* are equal
C4_Witness ==
    /\ last.op = "cache_key"
    /\ last.args[2] # last.args[3]
    /\ last.args[3] # sorted(last.args[3])
    /\ last.ret[3] = last.ret[4]

\* C6: when the external call of a fetch fails, the fetch returns the empty
\* table and the cache is exactly what it was before the call.
C6_FailureLeavesCache ==
    [][(OpStep("fetch") /\ CallFailed(last'))
         => (last'.ret = EmptyDF /\ cache' = cache)]_vars

\* the external call of a fetch failed while the cache held a (stale) entry
\* under the fingerprint of that fetch
C6_Witness ==
    /\ last.op = "fetch"
    /\ CallFailed(last)
    /\ KeyOf(last.args) \in DOMAIN cache

\* C8: every external call a fetch dispatches carries at most 5 keywords:
\* the first 5 elements, in order, of the list the caller passed.
C8_FirstFiveDispatched ==
    last.op = "fetch" =>
        \A i \in 1..Len(last.calls) :
            LET sent == last.calls[i].kw_list
                keywords == last.args[1]
            IN  /\ Len(sent) <= 5
                /\ Len(sent) = Min(5, Len(keywords))
                /\ \A j \in 1..Len(sent) : sent[j] = keywords[j]

\* a fetch of an unsorted list of more than 5 keywords dispatched a call
C8_Witness ==
    /\ last.op = "fetch"
    /\ Len(last.args[1]) > 5
    /\ last.args[1] # sorted(last.args[1])
    /\ last.calls # <<>>

\* C10 as stated: every fetch pays the delay and issues one external call,
\* and leaves the cache as it was.
C10_Original ==
    [][OpStep("fetch")
         => (last'.delays = 1 /\ Len(last'.calls) = 1 /\ cache' = cache)]_vars

\* C10 amended: a fetch first consults the cache under its fingerprint.  On
\* a fresh entry it returns that entry's payload with no delay and no
\* external call and leaves the cache unchanged.  Otherwise it pays one
\* delay and issues one external call; if the call fails the cache is
\* unchanged, else the response is stored under the fingerprint with the
\* current time and no other entry changes.
C10_FetchCaches ==
    [][OpStep("fetch") =>
        LET key == KeyOf(last'.args)
            fresh == key \in DOMAIN cache /\ now - cache[key].timestamp < 3600
        IN  IF fresh
            THEN /\ last'.delays = 0 /\ last'.calls = <<>>
                 /\ last'.ret = cache[key].data
                 /\ cache' = cache
            ELSE /\ last'.delays = 1 /\ Len(last'.calls) = 1
                 /\ IF CallFailed(last') THEN cache' = cache
                    ELSE /\ DOMAIN cache' = DOMAIN cache \cup {key}
                         /\ cache'[key] = [data |-> last'.ret, timestamp |-> now]
                         /\ \A k \in DOMAIN cache \ {key} : cache'[k] = cache[k]]_vars

\* a fetch was answered from the cache: no delay, no external call
C10_Witness ==
    /\ last.op = "fetch"
    /\ last.gets[1].hit
    /\ last.calls = <<>>
    /\ last.delays = 0

---------------------------------------------------------------------------
(* Properties of the Aggregator *)

NumCategories == Len(PRODUCT_CATEGORIES)

\* every keyword of every configured category
AllKeywords == UNION {Range(PRODUCT_KEYWORDS[c]) : c \in Range(PRODUCT_CATEGORIES)}

\* the get g found an entry 3600 seconds old or older
Stale(g) == g.stamp >= 0 /\ last.at - g.stamp >= 3600

\* the operation l dispatched an external call for exactly the list kw_list
Called(l, kw_list) == \E i \in 1..Len(l.calls) : l.calls[i].kw_list = kw_list

\* how the external call of the i-th fetch of the operation l ended, that
\* fetch having missed the cache (its call is the n-th, after n misses)
OutcomeOf(l, i) ==
    l.calls[Cardinality({j \in 1..i : ~l.gets[j].hit})].outcome

\* the operations that keep an entry of their own result, the others
OwnEntryOps == {"weights", "detailed", "top"}

FetchOnlyOps == {"categories", "hourly", "weekly"}

\* the step is a call of the operation called last, with the same
\* arguments, less than 3600 seconds after that call
SameCallAgain ==
    /\ now' = now
    /\ last.op # "none"
    /\ last'.op = last.op
    /\ last'.args = last.args
    /\ now - last.at < 3600

\* C2 as stated: the second of two identical calls within the TTL issues no
\* external call and pays no delay, whatever the first call's outcome.
C2_Original ==
    [][SameCallAgain => (last'.calls = <<>> /\ last'.delays = 0)]_vars

\* C2 amended: the second call issues no external call and pays no delay
\* when the first call computed what it returned.  get_keyword_weights,
\* get_detailed_keyword_weights and get_top_keywords store their result
\* whatever the outcome of their external calls, and the second call is
\* answered from that entry; if the first call was itself answered from
\* an older entry, the second is answered from it only while that entry is
\* less than 3600 seconds old.  analyze_by_category and get_hourly_analysis
\* / get_weekly_analysis keep no entry of their own: the second call
\* fetches again exactly the tables whose external call failed in the
\* first call or that the first call took from a fetch entry that has
\* since become 3600 seconds old.  No step removes an entry or makes it
\* older.
C2_SecondCallCached ==
    [][/\ (SameCallAgain /\ last.op \in OwnEntryOps)
            => /\ last'.gets[1].hit <=>
                     (last.gets[1].hit => now - last.gets[1].stamp < 3600)
               /\ last'.gets[1].hit => (last'.calls = <<>> /\ last'.delays = 0)
       /\ (SameCallAgain /\ last.op \in FetchOnlyOps)
            => /\ Len(last'.gets) = Len(last.gets)
               /\ last'.delays = Len(last'.calls)
               /\ \A i \in 1..Len(last.gets) :
                     last'.gets[i].hit <=>
                        IF last.gets[i].hit
                        THEN now - last.gets[i].stamp < 3600
                        ELSE OutcomeOf(last, i) # "fail"
               /\ Len(last'.calls) =
                     Cardinality({i \in 1..Len(last.gets) : ~last'.gets[i].hit})
       /\ \A k \in DOMAIN cache :
             k \in DOMAIN cache' /\ cache'[k].timestamp >= cache[k].timestamp]_vars

\* analyze_by_category, called again within the TTL after a call that
\* fetched every category itself, was answered from the cache
C2_Witness ==
    /\ last.again
    /\ last.op = "categories"
    /\ last.calls = <<>>
    /\ \A i \in 1..NumCategories : last.gets[i].hit /\ last.gets[i].stamp < last.at

\* C3 as stated: a call that finds the entry of its own operation 3600
\* seconds old or older issues at least one external call.
C3_Original ==
    (last.op \in {"weights", "top"} /\ Stale(last.gets[1])) => last.calls # <<>>

\* C3 amended: a call that finds its entry 3600 seconds old or older does
\* not return the stored payload.  A fetch whose entry is that old issues
\* an external call.  get_keyword_weights (also under get_top_keywords)
\* computes the weights anew and stores them with the current time,
\* issuing an external call for exactly the categories that have no fresh
\* fetch entry, which may be none.
C3_StaleRecomputed ==
    /\ (last.op \in {"weights", "top"} /\ Stale(last.gets[1]))
         => /\ ~last.gets[1].hit
            /\ Len(last.gets) = 1 + NumCategories
            /\ cache[WeightsKey(DefaultTimeframe)].timestamp = last.at
            /\ \A i \in 1..NumCategories :
                  Called(last, <<PRODUCT_CATEGORIES[i]>>) <=> ~last.gets[1 + i].hit
    /\ last.op = "categories"
         => \A i \in 1..NumCategories :
               Stale(last.gets[i])
                  => (~last.gets[i].hit /\ Called(last, <<PRODUCT_CATEGORIES[i]>>))

\* get_keyword_weights found its entry 3600 seconds old, computed the
\* weights anew from fresh fetch entries and issued no external call
C3_Witness ==
    /\ last.op = "weights"
    /\ Stale(last.gets[1])
    /\ Len(last.gets) = 1 + NumCategories
    /\ last.calls = <<>>

\* C5 as stated: when the adapter is called and fails on every call,
\* get_keyword_weights returns every configured keyword with the value 1.
C5_Original ==
    (last.op = "weights" /\ last.calls # <<>>
        /\ \A i \in 1..Len(last.calls) : last.calls[i].outcome = "fail")
      => /\ DictKeys(last.ret) = AllKeywords
         /\ \A j \in 1..Len(last.ret) : last.ret[j][2] = One

\* C5 amended: when every external call fails, get_keyword_weights returns
\* a WeightMap whose key set is exactly the configured keywords; the value
\* is 1 for every keyword of a category that has no fresh fetch entry (so
\* for all of them from an empty cache), a fresh entry being served as
\* stored.
C5_TotalFailure ==
    (last.op = "weights"
        /\ \A i \in 1..Len(last.calls) : last.calls[i].outcome = "fail")
      => /\ DictKeys(last.ret) = AllKeywords
         /\ Len(last.ret) = Cardinality(AllKeywords)
         /\ ~last.gets[1].hit =>
               \A i \in 1..NumCategories :
                  ~last.gets[1 + i].hit =>
                     \A k \in Range(PRODUCT_KEYWORDS[PRODUCT_CATEGORIES[i]]) :
                        DictGet(last.ret, k) = One

\* get_keyword_weights called the adapter for every category and every
\* call failed
C5_Witness ==
    /\ last.op = "weights"
    /\ Len(last.calls) = NumCategories
    /\ \A i \in 1..Len(last.calls) : last.calls[i].outcome = "fail"

\* the mean of the column of term k in df, floored at floor; floor when
\* df is empty or has no such column
FlooredMean(df, k, floor) ==
    IF Len(df.index) = 0 \/ k \notin DOMAIN df.cols THEN floor
    ELSE LET m == Rat(Sum(df.cols[k]), Len(df.cols[k]))
         IN  IF RatLess(m, floor) THEN floor ELSE m

\* C9: in every WeightMap get_keyword_weights returns, the keywords of one
\* category carry the same weight and every weight is at least 1; when
\* the weights are computed, the weight of a category is the mean of the
\* category-name series floored at 1, and 1 when the fetch failed, gave an
\* empty table or a table without the category column; when the cache
\* holds no entry the call consults (so from an empty cache) the
\* computation issues one external call per category, for the category
\* name.
C9_ProxyWeights ==
    last.op = "weights" =>
        LET w == last.ret
            Cat(i) == PRODUCT_CATEGORIES[i]
            key(i) == FetchKey(<<Cat(i)>>, DefaultTimeframe, DefaultGeo)
            failed(i) == \E n \in 1..Len(last.calls) :
                            /\ last.calls[n].kw_list = <<Cat(i)>>
                            /\ last.calls[n].outcome = "fail"
        IN  /\ DictKeys(w) = AllKeywords
            /\ \A i \in 1..NumCategories :
                  \A k1, k2 \in Range(PRODUCT_KEYWORDS[Cat(i)]) :
                     DictGet(w, k1) = DictGet(w, k2)
            /\ \A j \in 1..Len(w) : ~RatLess(w[j][2], One)
            /\ ~last.gets[1].hit =>
                  \A i \in 1..NumCategories :
                     DictGet(w, PRODUCT_KEYWORDS[Cat(i)][1]) =
                        IF failed(i) THEN One
                        ELSE FlooredMean(cache[key(i)].data, Cat(i), One)
            /\ (\A n \in 1..Len(last.gets) : last.gets[n].stamp = -1) =>
                  /\ Len(last.calls) = NumCategories
                  /\ last.delays = NumCategories
                  /\ \A i \in 1..NumCategories :
                        last.calls[i].kw_list = <<Cat(i)>>

\* get_keyword_weights computed the weights from a series with a mean
\* under 1 for the first category and a table without the column of the
\* second
C9_Witness ==
    /\ last.op = "weights"
    /\ Len(last.calls) = NumCategories
    /\ last.calls[1].outcome = "low"
    /\ last.calls[2].outcome = "miss"

\* the j-th group of 5 consecutive keywords of the list keywords
Chunk(keywords, j) ==
    [n \in 1..Min(5, Len(keywords) - 5 * (j - 1)) |-> keywords[5 * (j - 1) + n]]

\* ceil(L / 5)
NumChunks(L) == (L + 4) \div 5

\* C7: when the cache holds no entry the call consults (so from an empty
\* cache), exact mode issues for a category of L keywords
\* exactly ceil(L/5) external calls, in list order, each carrying the next
\* 5 consecutive keywords (the last the remainder), the categories in
\* configuration order; the WeightMap returned has exactly the keywords of
\* the categories asked for, with weight 0 for every keyword whose batch
\* failed or came back empty or whose column is missing, and the mean of
\* its own column otherwise.
C7_ExactBatches ==
    (last.op = "detailed" /\ \A n \in 1..Len(last.gets) : last.gets[n].stamp = -1) =>
        LET category == last.args[2]
            cats == IF category = NoCategory THEN PRODUCT_CATEGORIES
                    ELSE <<category>>
            L(i) == Len(PRODUCT_KEYWORDS[cats[i]])
            first(i) == Sum([h \in 1..(i - 1) |-> NumChunks(L(h))])
            w == last.ret
        IN  /\ Len(last.calls) = Sum([i \in 1..Len(cats) |-> NumChunks(L(i))])
            /\ last.delays = Len(last.calls)
            /\ \A i \in 1..Len(cats) : \A j \in 1..NumChunks(L(i)) :
                  LET call == last.calls[first(i) + j]
                      batch == Chunk(PRODUCT_KEYWORDS[cats[i]], j)
                  IN  /\ call.kw_list = batch
                      /\ \A n \in 1..Len(batch) :
                            DictGet(w, batch[n]) =
                               IF call.outcome = "fail" THEN Zero
                               ELSE FlooredMean(
                                      cache[FetchKey(batch, DefaultTimeframe,
                                                     DefaultGeo)].data,
                                      batch[n], Zero)
            /\ DictKeys(w) = UNION {Range(PRODUCT_KEYWORDS[cats[i]]) :
                                      i \in 1..Len(cats)}
            /\ Len(w) = Sum([i \in 1..Len(cats) |-> L(i)])

\* from an empty cache the first category was asked for: three external
\* calls, the second failed, the third came back without a column, and the
\* last batch is shorter than 5
C7_Witness ==
    /\ last.op = "detailed"
    /\ last.args[2] = 101
    /\ Len(last.calls) = 3
    /\ Len(last.gets) = 4
    /\ \A i \in 1..4 : last.gets[i].stamp = -1
    /\ last.calls[2].outcome = "fail"
    /\ last.calls[3].outcome = "miss"
    /\ Len(last.calls[3].kw_list) < 5

---------------------------------------------------------------------------
(* Properties of the order of the steps of one operation *)

\* the batches get_detailed_keyword_weights fetches for its arguments args
BatchesOf(args) == AllBatches(categories_to_analyze(args[2]))

\* C11: within one get_detailed_keyword_weights the external calls are
\* issued one after another in batch order, one for each batch that is not
\* answered from the cache, and each is immediately preceded by exactly one
\* sleep: the steps are sleep, call, sleep, call, ..., so an operation that
\* issues K calls pays exactly K delays and no call goes without its delay.
C11_DelayBeforeEachCall ==
    last.op = "detailed" =>
        LET K == Len(last.calls)
            batches == BatchesOf(last.args)
            Miss(i) == ~last.gets[1 + i].hit
        IN  /\ Len(last.trace) = 2 * K
            /\ \A n \in 1..K :
                  last.trace[2 * n - 1] = "sleep" /\ last.trace[2 * n] = "call"
            /\ last.delays = K
            /\ last.gets[1].hit => K = 0
            /\ ~last.gets[1].hit =>
                  /\ Len(last.gets) = 1 + Len(batches)
                  /\ K = Cardinality({i \in 1..Len(batches) : Miss(i)})
                  /\ \A i \in 1..Len(batches) :
                        Miss(i) =>
                           last.calls[Cardinality({j \in 1..i : Miss(j)})].kw_list
                              = batches[i]

\* an operation over four batches took one batch from the cache and
\* issued calls, each after its sleep, for batches before and after it
C11_Witness ==
    /\ last.op = "detailed"
    /\ Len(last.gets) = 5
    /\ ~last.gets[2].hit
    /\ last.gets[3].hit
    /\ ~last.gets[4].hit
    /\ Len(last.calls) >= 2
    /\ last.trace[1] = "sleep"

---------------------------------------------------------------------------
(* Properties of get_top_keywords *)

\* the weights {"a": 5, "b": 5, "c": 3}, the terms 1, 2, 3 for a, b, c
ExampleWeights == << <<1, Rat(5, 1)>>, <<2, Rat(5, 1)>>, <<3, Rat(3, 1)>> >>

\* the item at index a of the WeightMap w comes before the item at index b:
\* its score is higher, or the scores are equal and it was inserted first
ComesBefore(w, a, b) ==
    \/ RatLess(w[b][2], w[a][2])
    \/ w[a][2] = w[b][2] /\ a < b

\* the place of the item at index a of w in that order
Rank(w, a) == 1 + Cardinality({b \in 1..Len(w) : ComesBefore(w, b, a)})

\* C12: get_top_keywords(n, timeframe), n >= 0, returns the pairs of the
\* proxy-mode WeightMap ordered by score descending, pairs of equal score
\* in the WeightMap's insertion order, cut to the first n: min(n, number of
\* keywords) pairs, and no keyword left out has a score higher than one
\* included.  {"a": 5, "b": 5, "c": 3} and n = 2 give [("a", 5), ("b", 5)].
C12_TopSortedStable ==
    /\ Take(SortDesc(ExampleWeights, <<>>), 2) = << <<1, Rat(5, 1)>>, <<2, Rat(5, 1)>> >>
    /\ last.op = "top" =>
          LET n == last.args[1]
              w == cache[WeightsKey(last.args[2])].data
              top == last.ret
          IN  /\ Len(top) = Min(n, Len(w))
              /\ \A a \in 1..Len(w) : Rank(w, a) <= n => top[Rank(w, a)] = w[a]
              /\ \A a \in 1..Len(w) :
                    Rank(w, a) > n =>
                       \A i \in 1..Len(top) : ~RatLess(top[i][2], w[a][2])

\* the second category outweighs the first: its two keywords come first,
\* in insertion order, then the first keyword of the first category
C12_Witness ==
    /\ last.op = "top"
    /\ last.args[1] = 3
    /\ Len(last.ret) = 3
    /\ last.ret[1][1] = PRODUCT_KEYWORDS[102][1]
    /\ last.ret[2][1] = PRODUCT_KEYWORDS[102][2]
    /\ last.ret[2][2] = last.ret[1][2]
    /\ last.ret[3][1] = PRODUCT_KEYWORDS[101][1]

---------------------------------------------------------------------------
(* Properties of the handling of malformed input *)

\* the call l has a category that is not configured, or no keyword
Malformed(l) ==
    \/ /\ l.op = "detailed"
       /\ l.args[2] # NoCategory
       /\ l.args[2] \notin Range(PRODUCT_CATEGORIES)
    \/ l.op \in {"hourly", "weekly"} /\ l.args[1] = <<>>

\* the fingerprints the call l reads and writes the cache under
KeysOf(l) ==
    IF l.op = "detailed"
    THEN {DetailedKey(l.args[1], l.args[2])}
         \cup {FetchKey(BatchesOf(l.args)[i], l.args[1], DefaultGeo) :
                  i \in 1..Len(BatchesOf(l.args))}
    ELSE IF l.op = "hourly"
    THEN {FetchKey(l.args[1], DaysTimeframe(l.args[2]), DefaultGeo)}
    ELSE {FetchKey(l.args[1], DefaultTimeframe, DefaultGeo)}

\* C13: a call with malformed input reports a failure: what it gives the
\* caller is neither a mapping computed for some other input (weights of
\* configured keywords) nor the empty mapping, it issues no external call,
\* and it stores nothing in the cache.
C13_MalformedInputFails ==
    Malformed(last) =>
        /\ DictKeys(last.ret) \cap AllKeywords = {}
        /\ last.ret # <<>>
        /\ last.calls = <<>>
        /\ KeysOf(last) \cap DOMAIN cache = {}

---------------------------------------------------------------------------
(* Properties of the ownership of cached payloads *)

\* the fingerprints of the fetches of get_hourly_analysis and
\* get_weekly_analysis for the keyword lists callers pass
TimeFetchKeys ==
    {FetchKey(keywords, timeframe, DefaultGeo) :
        keywords \in KeywordLists, timeframe \in Timeframes}

\* C14: the payload held under a fingerprint is the one the last cache put
\* for that fingerprint stored.  A put by fetch_trends_data stores the
\* source's response with isPartial dropped, so no table in the store
\* carries the hour / day_of_week / date columns analyze_by_time attaches
\* to the table it hands on, and a later cache get returns the response as
\* it was stored.
C14_StoreHoldsWhatWasPut ==
    \A k \in TimeFetchKeys \cap DOMAIN cache : ~cache[k].data.derived

---------------------------------------------------------------------------
(* Properties of concurrent request handlers *)

\* the entry the cache holds before the handlers start
EarlierKey == FetchKey(<<3>>, DefaultTimeframe, DefaultGeo)

\* the handler h has made its cache put
HasSaved(h) == handlers[h].saved

\* what holds in every state of the racing handlers: a handler that has
\* finished has a table to return, every entry is a (payload, timestamp)
\* pair, there is one entry for each fingerprint that was put and for the
\* earlier one, and an entry no handler has put under is as it was
RaceState ==
    /\ \A h \in Handlers :
          handlers[h].pc = "done" => DOMAIN handlers[h].ret = DOMAIN EmptyDF
    /\ \A k \in DOMAIN cache :
          /\ DOMAIN cache[k] = {"data", "timestamp"}
          /\ cache[k].timestamp \in 0..now
          /\ DOMAIN cache[k].data = DOMAIN EmptyDF
    /\ DOMAIN cache =
          {EarlierKey} \cup {handlers[h].cache_key : h \in {g \in Handlers : HasSaved(g)}}
    /\ (\A h \in Handlers : HasSaved(h) => handlers[h].cache_key # EarlierKey)
          => cache[EarlierKey] = [data |-> EarlierResponse, timestamp |-> 0]

\* what holds of every step: a handler that has not finished is never
\* blocked by another one; the put of a handler leaves under its
\* fingerprint exactly its own response with the time of the put,
\* whatever was there, and touches no other entry; no other step changes
\* the cache
RaceStep ==
    /\ \A h \in Handlers :
          handlers[h].pc \in {"get", "build", "read", "save"} => ENABLED Step(h)
    /\ \A h \in Handlers :
          (handlers[h].pc = "save" /\ handlers'[h].pc = "done") =>
              LET key == handlers[h].cache_key
              IN  /\ DOMAIN cache' = DOMAIN cache \cup {key}
                  /\ cache'[key] = [data |-> handlers[h].response, timestamp |-> now]
                  /\ handlers'[h].ret = handlers[h].response
                  /\ \A k \in DOMAIN cache \ {key} : cache'[k] = cache[k]
    /\ (\A h \in Handlers : ~(handlers[h].pc = "save" /\ handlers'[h].pc = "done"))
          => cache' = cache

\* C15: when handlers miss the cache for the same fingerprint at the same
\* time, under every interleaving of their get, fetch and put steps each
\* handler completes and returns a table, each may run the fetch, and the
\* cache holds exactly one well-formed entry for the fingerprint: the one
\* written by the last put.  Entries of other fingerprints are untouched.
C15_LastPutWins == []RaceState /\ [][RaceStep]_vars

\* two handlers missed the cache for one fingerprint, both ran the fetch
\* and both put; the second put replaced a different payload
C15_Witness ==
    /\ \A h \in Handlers : h <= 2 =>
          handlers[h].pc = "done" /\ handlers[h].called /\ HasSaved(h)
    /\ handlers[1].cache_key = handlers[2].cache_key
    /\ handlers[1].keywords # handlers[2].keywords
    /\ handlers[1].ret # handlers[2].ret
    /\ last.op = "put"
    /\ last.args[1] = 2
    /\ cache[handlers[1].cache_key].data = handlers[2].ret

\* C19: every payload stored under a fetch fingerprint is the source's
\* response to the query built for the keywords of that fingerprint: no
\* interleaving of the handlers' build_payload and interest_over_time on
\* the shared client makes a handler store the response to the query of
\* another handler.
C19_ResponseMatchesQuery ==
    \A keywords \in RaceLists :
        LET key == FetchKey(keywords, DefaultTimeframe, DefaultGeo)
        IN  key \in DOMAIN cache =>
               \E out \in {"empty", "full"} :
                  cache[key].data = StripPartial(Respond(out, Truncate(keywords)))

---------------------------------------------------------------------------
(* Properties of analyze_by_category and of the time analyses *)

\* the i-th fetch of the operation l called the source and the call failed
FetchFailed(l, i) == ~l.gets[i].hit /\ OutcomeOf(l, i) = "fail"

\* the mean of the column of term k in df; 0 when df has no rows or no
\* such column
MeanOrZero(df, k) ==
    IF Len(df.index) = 0 \/ k \notin DOMAIN df.cols THEN Zero
    ELSE Rat(Sum(df.cols[k]), Len(df.cols[k]))

\* C16: analyze_by_category goes through all configured categories with no
\* early exit, whatever ends well and whatever fails: it returns a mapping
\* with exactly the configured categories, in configuration order, 0 for
\* each category whose fetch failed or whose table is empty or lacks the
\* category column, and the mean of the category series for each other
\* category, whatever happened to the others.
C16_PerCategoryIsolation ==
    last.op = "categories" =>
        /\ Len(last.gets) = NumCategories
        /\ Len(last.ret) = NumCategories
        /\ \A i \in 1..NumCategories :
              LET category == PRODUCT_CATEGORIES[i]
                  key == FetchKey(<<category>>, last.args[1], DefaultGeo)
              IN  /\ last.gets[i].key = key
                  /\ last.ret[i][1] = category
                  /\ last.ret[i][2] =
                        IF FetchFailed(last, i) THEN Zero
                        ELSE MeanOrZero(cache[key].data, category)

\* the fetch of the first category failed and the second category has the
\* mean of its series
C16_Witness ==
    /\ last.op = "categories"
    /\ Len(last.calls) = NumCategories
    /\ last.calls[1].outcome = "fail"
    /\ last.calls[2].outcome = "full"
    /\ last.ret[1][2] = Zero
    /\ last.ret[2][2] = Rat(Sum(HighSamples(PRODUCT_CATEGORIES[2])), 3)

\* the sum and the number of the samples of the column col that the index
\* puts at hour h
HourSum(index, col, h) ==
    Sum([i \in 1..Len(col) |-> IF index[i].hour = h THEN col[i] ELSE 0])

HourCount(index, h) == Cardinality({i \in 1..Len(index) : index[i].hour = h})

\* the table the call l of get_hourly_analysis got from its fetch: the
\* response of the source when the fetch called it, else the entry it hit
FetchedTable(l) ==
    IF l.calls # <<>>
    THEN IF l.calls[1].outcome = "fail" THEN EmptyDF
         ELSE StripPartial(Respond(l.calls[1].outcome, l.calls[1].kw_list))
    ELSE cache[l.gets[1].key].data

\* the result of the call l is the grouping by hour of the table it
\* fetched, for the keywords in S
GroupedByHour(l, S) ==
    LET df == FetchedTable(l)
        present == {k \in S : k \in DOMAIN df.cols}
    IN  IF Len(df.index) = 0 \/ DOMAIN df.cols = {} THEN l.ret = <<>>
        ELSE /\ DictKeys(l.ret) \cap S = present
             /\ \A k \in present :
                   LET avg == DictGet(l.ret, k)
                   IN  \A h \in 0..23 :
                          IF HourCount(df.index, h) = 0 THEN h \notin DOMAIN avg
                          ELSE /\ h \in DOMAIN avg
                               /\ avg[h] = Rat(HourSum(df.index, df.cols[k], h),
                                               HourCount(df.index, h))

\* C17: get_hourly_analysis maps, for each requested keyword present in the
\* table fetched, each hour of day that has a sample to the mean of exactly
\* that keyword's samples at that hour, with no entry for the other hours;
\* samples 10, 20, 30 at hours 0, 0, 12 give {0: 15, 12: 30}; when the
\* fetch yields no data the result is the empty mapping.
C17_HourlyGrouping ==
    last.op = "hourly" =>
        /\ GroupedByHour(last, Range(last.args[1]))
        /\ DictKeys(last.ret) \subseteq Range(last.args[1])

\* the grouping is right for every requested keyword but the term "hour",
\* whose samples analyze_by_time has replaced
HourlyGroupingOfOtherTerms ==
    last.op = "hourly" =>
        /\ GroupedByHour(last, Range(last.args[1]) \ {HourTerm})
        /\ DictKeys(last.ret) \subseteq Range(last.args[1])
        /\ (last.args[1] = <<3>> /\ last.calls # <<>>
               /\ last.calls[1].outcome = "full")
             => last.ret = << <<3, (0 :> Rat(15, 1) @@ 12 :> Rat(30, 1))>> >>

---------------------------------------------------------------------------
(* Properties of the fingerprint of a fetch and of layered entries *)

\* the table df is a response with data for every term of its query
FullResponse(df) ==
    /\ Len(df.index) > 0
    /\ DOMAIN df.cols # {}
    /\ StrayTerm \notin DOMAIN df.cols

\* C18: a fetch answered from the cache returns a table that was fetched
\* for the keyword set the call would itself dispatch: the terms of the
\* table are the first 5 elements of the list the caller passed.
C18_HitMatchesQuery ==
    (last.op = "fetch" /\ last.gets[1].hit /\ FullResponse(last.ret))
        => DOMAIN last.ret.cols = Range(Truncate(last.args[1]))

\* the response the weight entry under the fingerprint w was computed from
\* for a category is still the fetch entry under k: that entry was stored
\* no later than the weight entry and was less than 3600 seconds old then
\* (a newer put would carry a later time)
ComputedFrom(w, k) ==
    /\ k \in DOMAIN cache
    /\ cache[k].timestamp <= cache[w].timestamp
    /\ cache[w].timestamp - cache[k].timestamp < 3600

\* C20: staleness does not compound over the two layers of entries: every
\* WeightMap get_keyword_weights returns at time now is derived only from
\* responses of the source obtained less than 3600 seconds before now.
C20_NoCompoundStaleness ==
    last.op = "weights" =>
        \A i \in 1..NumCategories :
            LET w == WeightsKey(last.args[1])
                k == FetchKey(<<PRODUCT_CATEGORIES[i]>>, last.args[1], DefaultGeo)
            IN  ComputedFrom(w, k) => last.at - cache[k].timestamp < 3600

====
